---- MODULE Spec2Model ----
(***************************************************************************)
(* A model of ftserver.c: a sequential file-transfer server.  One accept   *)
(* cycle receives a command and a data port on the control connection,     *)
(* connects back to the client, answers on the data connection with a tag  *)
(* and a payload (directory listing or file bytes) and closes the data     *)
(* connection.                                                             *)
(*                                                                         *)
(* Text is a sequence of one-character strings; NUL is the zero byte.      *)
(* A buffer is a record [data, size]: size is its length in bytes, data    *)
(* its bytes up to the last one that is not zero; the bytes after data are *)
(* zero.  The bytes of a file are told apart by their offsets 1..len, and  *)
(* a block of file bytes is a record [from, size]: size bytes starting     *)
(* with the one at offset from.                                            *)
(***************************************************************************)
EXTENDS Integers, Sequences, FiniteSets, TLC

\* ------------------------------------------------------------------ bounds
\* accept cycles explored in one behaviour
MaxCycles == 2
\* transport writes that accept fewer bytes than asked, per behaviour
MaxShortWrites == 1
\* iterations of the file loop explored in which fread returned no byte
MaxErrLoops == 2
\* control reads that return fewer bytes than a whole message, per behaviour
MaxShortReads == 1

\* --------------------------------------------------------------- constants
BUFFER_SIZE == 500

NUL == "NUL"

\* the literals of handleRequest and sendDir
LIST_CMD == <<"-", "l">>
NONE_CMD == <<"%", "n", "o", "n", "e">>
TAG_DIR == <<"d", "i", "r", "\n">>
TAG_FIL == <<"f", "i", "l", "\n">>
TAG_NOF == <<"n", "o", "f", "\n">>
TAG_UNK == <<"u", "n", "k", "\n">>
DONE_MSG == <<"~", "d", "o", "n", "e", "\n">>
Tags == {TAG_DIR, TAG_FIL, TAG_NOF, TAG_UNK}

\* ---------------------------------------------------------- C library model
Min(S) == CHOOSE x \in S : \A y \in S : x <= y
Max(S) == CHOOSE x \in S : \A y \in S : x >= y

\* a byte sequence without its trailing zero bytes
Strip(q) ==
    LET nz == {i \in 1..Len(q) : q[i] # NUL}
    IN  IF nz = {} THEN <<>> ELSE SubSeq(q, 1, Max(nz))

\* malloc(BUFFER_SIZE): a buffer whose bytes are not the program's to read
malloc == [data |-> <<"?">>, size |-> BUFFER_SIZE]

\* bzero(buffer, BUFFER_SIZE)
bzero(buf) == [data |-> <<>>, size |-> BUFFER_SIZE]

\* strcpy(dst, src): the characters of src, then the terminating zero; the
\* rest of dst keeps what it held
strcpy(dst, src) ==
    LET n == IF Len(src) > Len(dst.data) THEN Len(src) ELSE Len(dst.data)
    IN  [data |-> Strip([i \in 1..n |->
                     IF i <= Len(src) THEN src[i]
                     ELSE IF i = Len(src) + 1 THEN NUL
                     ELSE dst.data[i]]),
         size |-> dst.size]

\* the C string held in a buffer: the bytes before the first zero byte
CStr(buf) ==
    LET z == {i \in 1..Len(buf.data) : buf.data[i] = NUL}
    IN  IF z = {} THEN buf.data ELSE SubSeq(buf.data, 1, Min(z) - 1)

\* the first n characters of a C string (all of it when it is shorter)
Prefix(s, n) == SubSeq(s, 1, IF Len(s) < n THEN Len(s) ELSE n)

\* strncmp(a, b, n) == 0
strncmp0(a, b, n) == Prefix(a, n) = Prefix(b, n)

\* strcmp(a, b) == 0
strcmp0(a, b) == a = b

\* strcat(d_name, "\n")
strcatNL(name) == name \o <<"\n">>

\* atoi on decimal text: the leading digits, 0 when there are none
Digits == <<"0", "1", "2", "3", "4", "5", "6", "7", "8", "9">>
IsDigit(c) == \E d \in 1..10 : Digits[d] = c
DigitVal(c) == (CHOOSE d \in 1..10 : Digits[d] = c) - 1
RECURSIVE atoiFrom(_, _, _)
atoiFrom(s, i, acc) ==
    IF i > Len(s) \/ ~IsDigit(s[i]) THEN acc
    ELSE atoiFrom(s, i + 1, acc * 10 + DigitVal(s[i]))
atoi(s) == atoiFrom(s, 1, 0)

\* ------------------------------------------------------- the file system
\* the size bytes of a file that follow offset pos, as fread stores them
FileBlock(pos, size) == [from |-> pos + 1, size |-> size]

\* lengths of the regular file "a": empty, short, around one and two buffers
FileLens == {0, 6, 499, 500, 501, 1000, 1001}

DOT == <<".">>
DOTDOT == <<".", ".">>
NAME_A == <<"a">>
NAME_B == <<"b">>
NAME_LX == <<"-", "l", "x">>
NAME_NONEX == <<"%", "n", "o", "n", "e", "x">>
NAME_DONE == <<"~", "d", "o", "n", "e">>
NAME_SECRET == <<"s">>

\* A directory maps each entry name to its kind: "reg" a readable regular
\* file of the given length, "noperm" a file fopen cannot open, "dir" a
\* directory (fopen succeeds, every fread fails).
DirWith(extra) ==
    [n \in {DOT, DOTDOT} \cup DOMAIN extra |->
        IF n \in DOMAIN extra THEN extra[n] ELSE [kind |-> "dir", len |-> 0]]

Reg(n) == [kind |-> "reg", len |-> n]
NoPerm == [kind |-> "noperm", len |-> 0]

One(k, v) == [x \in {k} |-> v]

Directories ==
    {DirWith(One(NAME_A, Reg(n))) : n \in FileLens}
    \cup {DirWith(One(NAME_LX, Reg(6))),
          DirWith(One(NAME_NONEX, Reg(6))),
          DirWith(One(NAME_DONE, Reg(0))),
          DirWith(One(NAME_SECRET, NoPerm))}

\* command texts a client may send
Commands ==
    {LIST_CMD, NONE_CMD, NAME_A, NAME_B, NAME_LX, NAME_NONEX, NAME_DONE,
     NAME_SECRET, DOT, <<"-", "L">>, <<>>}

\* recMsg's buffer after bzero and a read that stored the bytes received
\* (lines 137-140)
recMsg(buf, bytes) == [bzero(buf) EXCEPT !.data = Strip(bytes)]

\* ------------------------------------------------------------------ state
VARIABLES
    pc,          \* where the process is
    listenState, \* the listening socket: "none", "socket", "listening",
                 \* or "notListening" when listen() failed
    cliAddr,     \* main's struct cliAddr (line 346): [addr, port]
    connTarget,  \* where this cycle's connect() went: [addr, port]
    peer,        \* the client accepted in this cycle: its address, and the
                 \* command and port texts it sends
    ctrlPos,     \* bytes of the client's control stream already read
    shortReads,  \* short control reads so far
    prevOutcome, \* the outcome of the last cycle that closed
    firstFil,    \* the first file response that completed: command, writes
    cycle,       \* accept cycles started
    dir,         \* the working directory
    buffer,      \* main's buffer (line 347), reused by every cycle
    dataPort,    \* atoi(dataPortStr) of this cycle
    ctrlOpen,    \* control connections accepted and not closed
    dataOpen,    \* cycles whose data connection is open
    dataLog,     \* the writes on this cycle's data connection, in order
    events,      \* this cycle's protocol events, in order
    command,     \* the command text handleRequest was given in this cycle
    outcome,     \* the branch handleRequest took in this cycle
    fileName,    \* handleRequest's copy of the command (line 318)
    filePos,     \* bytes of the open file consumed so far
    feof,        \* end-of-file indicator of the open stream
    ferror,      \* error indicator of the open stream
    remaining,   \* directory entries readdir has not yielded yet
    shortWrites, \* short writes so far
    errLoops,    \* iterations of the file loop that read no byte
    diag         \* the diagnostic of error(), "" while running

vars == <<pc, listenState, cliAddr, connTarget, peer, ctrlPos, shortReads,
          prevOutcome, firstFil, cycle, dir, buffer, dataPort, ctrlOpen,
          dataOpen, dataLog, events, command, outcome, fileName, filePos,
          feof, ferror, remaining, shortWrites, errLoops, diag>>

\* the variables no step of the startup or of the control connection changes
dataVars == <<dir, dataOpen, fileName, filePos, feof, ferror, remaining,
              shortWrites, errLoops, prevOutcome, firstFil>>


\* -------------------------------------------------------------- transport
\* the byte count a short write reports for a request of n bytes: at least
\* one byte, fewer than n
ShortCounts(n) == {k \in {n - 1} : 0 < k /\ k < n}

\* write(fd, buf, n): n, fewer than n, or -1
WriteResults(n) ==
    {n, -1} \cup (IF shortWrites < MaxShortWrites THEN ShortCounts(n) ELSE {})

\* one write as the data connection records it: who wrote, the bytes handed
\* to the transport and what write() returned
WriteRec(role, bytes, ret) == [role |-> role, bytes |-> bytes, ret |-> ret]

\* error(msg): perror and exit(1)
error(msg) == pc' = "exited" /\ diag' = msg

\* sendMsg copying the message into the buffer as it finds it
sendMsg_NoBzero(buf, msg) == strcpy(buf, msg)

\* sendMsg's buffer when it calls write (lines 113-114)
sendMsg(buf, msg) == strcpy(bzero(buf), msg)

\* ---------------------------------------------------------- handleRequest
\* inDir(fileName): some entry of the directory has exactly this name
inDir(name, d) == \E e \in DOMAIN d : strcmp0(name, e)

\* the branch handleRequest takes for the command text in its buffer
Branch(cmd, d) ==
    IF strncmp0(cmd, LIST_CMD, 2) THEN "dir"
    ELSE IF ~strncmp0(cmd, NONE_CMD, 5)
         THEN (IF inDir(cmd, d) THEN "fil" ELSE "nof")
         ELSE "unk"

\* the tag each branch sends
TagOf(branch) ==
    CASE branch = "dir" -> TAG_DIR
      [] branch = "fil" -> TAG_FIL
      [] branch = "nof" -> TAG_NOF
      [] branch = "unk" -> TAG_UNK

\* AfterTag with the not-found branch running on into the listing
AfterTag_NofFallsThrough(branch) ==
    CASE branch = "dir" -> "sendDir"
      [] branch = "fil" -> "fopen"
      [] branch = "nof" -> "sendDir"
      [] OTHER -> "return"

\* AfterTag with the unknown-command branch running on into the file transfer
AfterTag_UnkFallsThrough(branch) ==
    CASE branch = "dir" -> "sendDir"
      [] branch = "fil" -> "fopen"
      [] branch = "unk" -> "fopen"
      [] OTHER -> "return"

\* AfterTag with the not-found branch ending the process
AfterTag_NofExits(branch) ==
    CASE branch = "dir" -> "sendDir"
      [] branch = "fil" -> "fopen"
      [] branch = "nof" -> "exited"
      [] OTHER -> "return"

\* what handleRequest does after its tag: sendDir, sendFile, or return
AfterTag(branch) ==
    CASE branch = "dir" -> "sendDir"
      [] branch = "fil" -> "fopen"
      [] OTHER -> "return"

\* main going back to accept without closing the data connection
AfterHandleRequest_SkipClose == "accept"

\* main after handleRequest has returned: close(dataSockFD) (line 399)
AfterHandleRequest == "close"

\* where control is once a payload routine or handleRequest returns
Returned(where) == IF where = "return" THEN AfterHandleRequest ELSE where

\* ------------------------------------------------------- control stream
\* where the client of cycle n is: the address it connects from and the data
\* port it listens on, which it names as decimal text; successive clients
\* differ in both
PeerEnd(n) ==
    IF n % 2 = 1
    THEN [addr |-> "hostA", port |-> <<"5", "1", "0", "0", "0">>]
    ELSE [addr |-> "hostB", port |-> <<"4", "0", "0", "1">>]

\* the source port of a client's control connection, which accept stores in
\* cliAddr->sin_port
EphemeralPort == 40000

\* no client yet
NoPeer == [addr |-> "none", cmd |-> <<>>, port |-> <<>>]

\* the clients that may connect in cycle n: an address, a command and a data
\* port
Peers(n) == {[addr |-> PeerEnd(n).addr, cmd |-> c, port |-> PeerEnd(n).port] :
               c \in Commands}

\* byte i of the control stream of client p: the command as one message of
\* BUFFER_SIZE bytes, zero padded, then the data port as another
StreamByte(p, i) ==
    IF i <= BUFFER_SIZE
    THEN (IF i <= Len(p.cmd) THEN p.cmd[i] ELSE NUL)
    ELSE (IF i - BUFFER_SIZE <= Len(p.port) THEN p.port[i - BUFFER_SIZE]
          ELSE NUL)

\* the k bytes of the stream that follow the first pos
StreamBytes(p, pos, k) == [i \in 1..k |-> StreamByte(p, pos + i)]

\* byte counts a short read may report
ShortReadCounts == {2}

\* read(fd, buf, BUFFER_SIZE) with avail bytes of the stream unread: all that
\* fits, or fewer
ReadResults(avail) ==
    LET most == IF avail < BUFFER_SIZE THEN avail ELSE BUFFER_SIZE
    IN  {most} \cup (IF shortReads < MaxShortReads
                     THEN {k \in ShortReadCounts : k < most}
                     ELSE {})

\* htons(dataPort) as the port number the 16-bit sin_port field denotes
htons(p) == p % 65536

\* main leaving the port that accept stored
setPort_Skipped(addr, port) == addr

\* cliAddr->sin_port = htons(dataPort) (line 389)
setPort(addr, port) == [addr EXCEPT !.port = htons(port)]

\* ------------------------------------------------------------------- Init
NoFile == <<>>
NoTarget == [addr |-> "none", port |-> 0]
NoResponse == [command |-> <<>>, sent |-> <<>>]

\* main has validated its arguments and allocated its buffers (lines 345-363);
\* the transport has already made sw of the short writes and sr of the short
\* reads it may make
Start(sw, sr) ==
    /\ pc = "createSocket"
    /\ listenState = "none"
    /\ cliAddr = [addr |-> "?", port |-> 0]
    /\ connTarget = NoTarget
    /\ peer = NoPeer
    /\ ctrlPos = 0
    /\ shortReads = sr
    /\ prevOutcome = "none"
    /\ firstFil = NoResponse
    /\ cycle = 0
    /\ dir \in Directories
    /\ buffer = malloc
    /\ dataPort = 0
    /\ ctrlOpen = {}
    /\ dataOpen = {}
    /\ dataLog = <<>>
    /\ events = <<>>
    /\ command = <<>>
    /\ outcome = "none"
    /\ fileName = NoFile
    /\ filePos = 0
    /\ feof = FALSE
    /\ ferror = FALSE
    /\ remaining = {}
    /\ shortWrites = sw
    /\ errLoops = 0
    /\ diag = ""

Init == Start(0, 0)

\* the start under a transport that completes every read and write in full
\* or fails it
InitWholeTransfers == Start(MaxShortWrites, MaxShortReads)

\* ---------------------------------------------------------------- startup
\* createSocket(&listenSockFD) (lines 57-63, 366)
CreateSocket ==
    /\ pc = "createSocket"
    /\ \/ /\ listenState' = "socket"
          /\ pc' = "startUp"
          /\ UNCHANGED diag
       \/ /\ error("ERROR opening socket")
          /\ UNCHANGED listenState
    /\ UNCHANGED <<cliAddr, connTarget, peer, ctrlPos, shortReads, cycle,
                   buffer, dataPort, ctrlOpen, dataLog, events, command,
                   outcome>>
    /\ UNCHANGED dataVars

\* what startUp does when listen() has returned -1: nothing, the result is
\* not looked at (line 94)
AfterListenFailed == "accept"

\* startUp (lines 79-96, 369): bind, tested; listen, not tested
StartUp ==
    /\ pc = "startUp"
    /\ \/ /\ error("ERROR on binding")
          /\ UNCHANGED listenState
       \/ /\ listenState' = "listening"
          /\ pc' = "accept"
          /\ UNCHANGED diag
       \/ /\ listenState' = "notListening"
          /\ pc' = AfterListenFailed
          /\ UNCHANGED diag
    /\ UNCHANGED <<cliAddr, connTarget, peer, ctrlPos, shortReads, cycle,
                   buffer, dataPort, ctrlOpen, dataLog, events, command,
                   outcome>>
    /\ UNCHANGED dataVars

\* ------------------------------------------------------------------- main
\* acceptClient (lines 157-166), at the top of main's loop (line 374): accept
\* stores the client's address in cliAddr; on a socket that is not listening
\* it can only fail
AcceptClient ==
    /\ pc = "accept"
    /\ cycle < MaxCycles
    /\ \/ /\ listenState = "listening"
          /\ \E p \in Peers(cycle + 1) :
                /\ peer' = p
                /\ cliAddr' = [addr |-> p.addr, port |-> EphemeralPort]
          /\ pc' = "recvCmd"
          /\ cycle' = cycle + 1
          /\ ctrlOpen' = ctrlOpen \cup {cycle + 1}
          /\ ctrlPos' = 0
          /\ connTarget' = NoTarget
          /\ events' = <<>>
          /\ dataLog' = <<>>
          /\ command' = <<>>
          /\ outcome' = "none"
          /\ UNCHANGED diag
       \/ /\ error("ERROR on accept")
          /\ UNCHANGED <<peer, cliAddr, cycle, ctrlOpen, ctrlPos, connTarget,
                         events, dataLog, command, outcome>>
    /\ UNCHANGED <<listenState, shortReads, buffer, dataPort>>
    /\ UNCHANGED dataVars

\* recMsg(buffer, connectSockFD) (line 378): one read into the zeroed buffer
RecvCommand ==
    /\ pc = "recvCmd"
    /\ \/ \E k \in ReadResults(2 * BUFFER_SIZE - ctrlPos) :
            /\ buffer' = recMsg(buffer, StreamBytes(peer, ctrlPos, k))
            /\ ctrlPos' = ctrlPos + k
            /\ shortReads' = IF k < BUFFER_SIZE THEN shortReads + 1
                             ELSE shortReads
            /\ events' = Append(events, "recvCmd")
            /\ pc' = "recvPort"
            /\ UNCHANGED diag
       \/ /\ buffer' = bzero(buffer)
          /\ error("ERROR reading from socket")
          /\ UNCHANGED <<events, ctrlPos, shortReads>>
    /\ UNCHANGED <<listenState, cliAddr, connTarget, peer, cycle, dataPort,
                   ctrlOpen, dataLog, command, outcome>>
    /\ UNCHANGED dataVars

\* recMsg(dataPortStr, connectSockFD) and atoi (lines 381-383): one read into
\* a fresh zeroed buffer
RecvPort ==
    /\ pc = "recvPort"
    /\ \/ \E k \in ReadResults(2 * BUFFER_SIZE - ctrlPos) :
          \E dataPortStr \in {recMsg(malloc, StreamBytes(peer, ctrlPos, k))} :
            /\ dataPort' = atoi(CStr(dataPortStr))
            /\ ctrlPos' = ctrlPos + k
            /\ shortReads' = IF k < BUFFER_SIZE THEN shortReads + 1
                             ELSE shortReads
            /\ events' = Append(events, "recvPort")
            /\ pc' = "connect"
            /\ UNCHANGED diag
       \/ /\ error("ERROR reading from socket")
          /\ UNCHANGED <<dataPort, events, ctrlPos, shortReads>>
    /\ UNCHANGED <<listenState, cliAddr, connTarget, peer, cycle, buffer,
                   ctrlOpen, dataLog, command, outcome>>
    /\ UNCHANGED dataVars

\* createSocket(&dataSockFD), the port stored in cliAddr, and connect to
\* cliAddr (lines 387-391)
Connect ==
    /\ pc = "connect"
    /\ \/ /\ cliAddr' = setPort(cliAddr, dataPort)
          /\ connTarget' = cliAddr'
          /\ dataOpen' = dataOpen \cup {cycle}
          /\ events' = Append(events, "connect")
          /\ pc' = "dispatch"
          /\ UNCHANGED diag
       \/ /\ error("ERROR opening socket")
          /\ UNCHANGED <<cliAddr, connTarget, dataOpen, events>>
       \/ /\ cliAddr' = setPort(cliAddr, dataPort)
          /\ error("ERROR establishing data connection.")
          /\ UNCHANGED <<connTarget, dataOpen, events>>
    /\ UNCHANGED <<listenState, peer, ctrlPos, shortReads, prevOutcome,
                   firstFil, cycle, dir, buffer, dataPort, ctrlOpen, dataLog,
                   command, outcome, fileName, filePos, feof, ferror,
                   remaining, shortWrites, errLoops>>

\* the writes of a cycle without what write() returned
Response(log) == [i \in DOMAIN log |-> [role |-> log[i].role,
                                         bytes |-> log[i].bytes]]

\* close(dataSockFD) (lines 397-401).  The control connection is left as it
\* is: main never closes connectSockFD.
Close ==
    /\ pc = "close"
    /\ dataOpen' = dataOpen \ {cycle}
    /\ events' = Append(events, "close")
    /\ pc' = "accept"
    /\ prevOutcome' = outcome
    /\ firstFil' = IF outcome = "fil" /\ firstFil = NoResponse
                   THEN [command |-> command, sent |-> Response(dataLog)]
                   ELSE firstFil
    /\ UNCHANGED <<listenState, cliAddr, connTarget, peer, ctrlPos,
                   shortReads, cycle, dir, buffer, dataPort, ctrlOpen,
                   dataLog, command, outcome, fileName, filePos, feof,
                   ferror, remaining, shortWrites, errLoops, diag>>

\* ---------------------------------------------------------- data writes
IsShort(n, r) == 0 <= r /\ r < n

\* One write(socketFD, bytes, bytes.size) on the data connection followed by
\* the caller's test "if (success < 0) error(...)": the write is recorded, a
\* negative result ends the process, any other result goes on to `next`.
DataWrite(role, bytes, event, next) ==
    \E r \in WriteResults(bytes.size) :
        /\ dataLog' = Append(dataLog, WriteRec(role, bytes, r))
        /\ shortWrites' = IF IsShort(bytes.size, r) THEN shortWrites + 1
                          ELSE shortWrites
        /\ IF r < 0
           THEN /\ error("ERROR writing message to socket.")
                /\ UNCHANGED events
           ELSE /\ pc' = next
                /\ events' = Append(events, event)
                /\ UNCHANGED diag

\* the name sendFile gets if fileName were the buffer itself, read after the
\* tag was written into it
SavedFileName_Aliased(before, after) == CStr(after)

\* fileName = malloc, strcpy(fileName, buffer) (lines 318-319), made from the
\* buffer as it is before the tag is sent; sendFile gets this copy (line 323)
SavedFileName(before, after) == CStr(strcpy(malloc, CStr(before)))

\* handleRequest up to and including its tag (lines 302-335); in the file
\* branch the command is copied to fileName before the tag overwrites the
\* buffer (lines 318-321); in the listing branch sendDir opens the directory
HandleRequest ==
    /\ pc = "dispatch"
    /\ \E cmd \in {CStr(buffer)} :
       \E br \in {Branch(cmd, dir)} :
       \E out \in {sendMsg(buffer, TagOf(br))} :
           /\ command' = cmd
           /\ outcome' = br
           /\ fileName' = IF br = "fil" THEN SavedFileName(buffer, out)
                          ELSE fileName
           /\ buffer' = out
           /\ remaining' = IF br = "dir" THEN DOMAIN dir ELSE remaining
           /\ DataWrite("tag", out, "tag", Returned(AfterTag(br)))
    /\ UNCHANGED <<cycle, dir, dataPort, ctrlOpen, dataOpen, filePos, feof,
                   ferror, errLoops>>
    /\ UNCHANGED <<listenState, cliAddr, connTarget, peer, ctrlPos,
                   shortReads, prevOutcome, firstFil>>

\* ---------------------------------------------------------------- sendDir
\* one iteration of the readdir loop (lines 198-201): readdir yields the
\* entries in an order of its own
SendDirEntry ==
    /\ pc = "sendDir"
    /\ \E e \in remaining :
        /\ remaining' = remaining \ {e}
        /\ DataWrite("entry", sendMsg(malloc, strcatNL(e)), "payload", "sendDir")
    /\ UNCHANGED <<cycle, dir, buffer, dataPort, ctrlOpen, dataOpen, command,
                   outcome, fileName, filePos, feof, ferror, errLoops>>
    /\ UNCHANGED <<listenState, cliAddr, connTarget, peer, ctrlPos,
                   shortReads, prevOutcome, firstFil>>

\* readdir returned NULL: the closing line, closedir, free (lines 204-209)
SendDirDone ==
    /\ pc = "sendDir"
    /\ remaining = {}
    /\ DataWrite("done", sendMsg(malloc, DONE_MSG), "payload", Returned("return"))
    /\ UNCHANGED <<cycle, dir, buffer, dataPort, ctrlOpen, dataOpen, command,
                   outcome, fileName, filePos, feof, ferror, remaining,
                   errLoops>>
    /\ UNCHANGED <<listenState, cliAddr, connTarget, peer, ctrlPos,
                   shortReads, prevOutcome, firstFil>>

\* --------------------------------------------------------------- sendFile
\* fopen(name, "r") returns NULL: no such entry, or no permission to read it
fopenFails(name, d) == name \notin DOMAIN d \/ d[name].kind = "noperm"

\* a stream that carries on where the stream of the last transfer stopped
fopen_Reused(last) == last

\* the stream fopen returns: at the start of the file, no indicator set,
\* whatever the stream of the last transfer was left as
fopen(last) == [pos |-> 0, eof |-> FALSE, err |-> FALSE]

\* fopen(fileName, "r") (lines 268-269)
SendFileOpen ==
    /\ pc = "fopen"
    /\ IF fopenFails(fileName, dir)
       THEN /\ error("Can't open file.")
            /\ UNCHANGED <<filePos, feof, ferror, errLoops>>
       ELSE LET file == fopen([pos |-> filePos, eof |-> feof, err |-> ferror])
            IN  /\ pc' = "sendFile"
                /\ filePos' = file.pos
                /\ feof' = file.eof
                /\ ferror' = file.err
                /\ errLoops' = 0
                /\ UNCHANGED diag
    /\ UNCHANGED <<cycle, dir, buffer, dataPort, ctrlOpen, dataOpen, dataLog,
                   events, command, outcome, fileName, remaining,
                   shortWrites>>
    /\ UNCHANGED <<listenState, cliAddr, connTarget, peer, ctrlPos,
                   shortReads, prevOutcome, firstFil>>

\* fread(buffer, 1, 500, file) on a stream at offset pos of an entry: the
\* number of bytes read, and the indicators it leaves.  A directory cannot
\* be read: 0 bytes and the error indicator.  A regular file yields up to
\* 500 bytes; the end-of-file indicator is set when fewer than 500 were left.
freadCount(entry, pos) ==
    IF entry.kind = "dir" THEN 0
    ELSE IF entry.len - pos < 500 THEN entry.len - pos ELSE 500
freadEof(entry, pos) == entry.kind # "dir" /\ entry.len - pos < 500
freadError(entry) == entry.kind = "dir"

\* a loop test that waits for an error as well
LoopAgain_UntilError(eof, err) == ~eof \/ ~err

\* the loop test of sendFile: while (!feof(file)) (line 273)
LoopAgain(eof, err) == ~eof

\* one iteration of the loop (lines 273-280): fread, write, test of write
SendFileChunk ==
    /\ pc = "sendFile"
    /\ LoopAgain(feof, ferror)
    /\ freadCount(dir[fileName], filePos) = 0 => errLoops < MaxErrLoops
    /\ LET entry == dir[fileName]
           n == freadCount(entry, filePos)
           bytes == FileBlock(filePos, n)
       IN  /\ filePos' = filePos + n
           /\ feof' = freadEof(entry, filePos)
           /\ ferror' = (ferror \/ freadError(entry))
           /\ errLoops' = IF n = 0 THEN errLoops + 1 ELSE errLoops
           /\ DataWrite("chunk", bytes, "payload", "sendFile")
    /\ UNCHANGED <<cycle, dir, buffer, dataPort, ctrlOpen, dataOpen, command,
                   outcome, fileName, remaining>>
    /\ UNCHANGED <<listenState, cliAddr, connTarget, peer, ctrlPos,
                   shortReads, prevOutcome, firstFil>>

\* the loop has ended: fclose, free, return (lines 282-285, 324)
SendFileEnd ==
    /\ pc = "sendFile"
    /\ ~LoopAgain(feof, ferror)
    /\ pc' = Returned("return")
    /\ UNCHANGED <<cycle, dir, buffer, dataPort, ctrlOpen, dataOpen, dataLog,
                   events, command, outcome, fileName, filePos, feof, ferror,
                   remaining, shortWrites, errLoops, diag>>
    /\ UNCHANGED <<listenState, cliAddr, connTarget, peer, ctrlPos,
                   shortReads, prevOutcome, firstFil>>

\* ------------------------------------------------------------------- Next
Next ==
    \/ CreateSocket
    \/ StartUp
    \/ AcceptClient
    \/ RecvCommand
    \/ RecvPort
    \/ Connect
    \/ HandleRequest
    \/ SendDirEntry
    \/ SendDirDone
    \/ SendFileOpen
    \/ SendFileChunk
    \/ SendFileEnd
    \/ Close

Spec == Init /\ [][Next]_vars

\* The server is one sequential process: whenever it has a next step, it
\* takes it (a blocking call that can complete does complete).  The
\* transport completes every transfer in full or fails it.
LiveSpec == InitWholeTransfers /\ [][Next]_vars /\ WF_vars(Next)

TypeOK ==
    /\ pc \in {"createSocket", "startUp", "accept", "recvCmd", "recvPort", "connect", "dispatch",
               "sendDir", "fopen", "sendFile", "close", "exited"}
    /\ cycle \in 0..MaxCycles
    /\ buffer.size = BUFFER_SIZE
    /\ outcome \in {"none", "dir", "fil", "nof", "unk"}
    /\ prevOutcome \in {"none", "dir", "fil", "nof", "unk"}
    /\ listenState \in {"none", "socket", "listening", "notListening"}
    /\ ctrlPos \in 0..(2 * BUFFER_SIZE)
    /\ shortReads \in 0..MaxShortReads
    /\ dataPort \in Nat

\* ============================================================== properties
\* a framed message: the text followed by zero bytes up to the fixed capacity
Frame(text) == [data |-> text, size |-> 500]

\* the messages and chunks handed to the data connection, in order
Sent == [i \in 1..Len(dataLog) |-> dataLog[i].bytes]

Last(q) == q[Len(q)]

\* the offsets of the file bytes in a sequence of file blocks, in order
RECURSIVE Offsets(_)
Offsets(q) ==
    IF q = <<>> THEN <<>>
    ELSE [i \in 1..Head(q).size |-> Head(q).from + i - 1] \o Offsets(Tail(q))

\* handleRequest has run in this cycle
Dispatched == outcome # "none"

\* this cycle has closed its data connection and main is back at accept
Closed == pc = "accept" /\ events # <<>> /\ Last(events) = "close"

\* the process ended in error() after this cycle's accept
FatalInRequest ==
    pc = "exited" /\ cycle >= 1 /\ (events = <<>> \/ Last(events) # "close")

\* the transport has completed every write and every read in full so far
WholeTransfers == shortWrites = 0 /\ shortReads = 0

\* the peer has received bytes of this cycle's tag
TagReceived ==
    \E i \in 1..Len(dataLog) : dataLog[i].role = "tag" /\ dataLog[i].ret > 0

\* C1: for every file name that matches a directory entry, the response is
\* the "fil" tag first, then chunks whose concatenation is exactly the file's
\* bytes, then the close of the data connection.  (Stated for the runs in
\* which the transport completes every transfer in full.)
C1_FileRoundTrip ==
    (Closed /\ WholeTransfers /\ inDir(command, dir)) =>
        /\ Len(dataLog) >= 1
        /\ Sent[1] = Frame(TAG_FIL)
        /\ \A i \in 2..Len(dataLog) : dataLog[i].role = "chunk"
        /\ Offsets(Tail(Sent)) = [i \in 1..dir[command].len |-> i]

\* C2: a command that is neither exactly "-l" nor exactly "%none" and matches
\* no directory entry is answered by the "nof" tag and nothing else.
C2_MissingFileOnlyNof ==
    (Dispatched /\ pc # "exited" /\ WholeTransfers /\ command # LIST_CMD
        /\ command # NONE_CMD
        /\ ~inDir(command, dir))
    => Sent = <<Frame(TAG_NOF)>>

\* C3: the listing response is the "dir" tag, one framed message per entry
\* (name and newline), then "~done"; the "~done" line occurs exactly once,
\* last, and the names sent are the names of the directory.
C3_ListingResponse ==
    (Closed /\ WholeTransfers /\ command = LIST_CMD) =>
        /\ Len(Sent) = Cardinality(DOMAIN dir) + 2
        /\ Sent[1] = Frame(TAG_DIR)
        /\ Last(Sent) = Frame(DONE_MSG)
        /\ {Sent[i] : i \in 2..(Len(Sent) - 1)}
               = {Frame(strcatNL(e)) : e \in DOMAIN dir}
        /\ Cardinality({i \in 1..Len(Sent) : Sent[i] = Frame(DONE_MSG)}) = 1

\* C4: the dispatcher takes the listing branch if and only if the command
\* text is exactly "-l".
C4_ListingIffExactToken ==
    (Dispatched /\ pc # "exited" /\ WholeTransfers) => (outcome = "dir" <=> command = LIST_CMD)

\* C5: the command "%none" is answered by exactly the "unk" tag, and the
\* "unk" tag is sent for no other command.
C5_UnknownIffSentinel ==
    (Dispatched /\ pc # "exited" /\ WholeTransfers) =>
        /\ command = NONE_CMD => Sent = <<Frame(TAG_UNK)>>
        /\ Sent[1] = Frame(TAG_UNK) => command = NONE_CMD

\* handleRequest has returned to main
HandleRequestReturned == Dispatched /\ (pc = "close" \/ Closed)

\* C6: when the dispatcher returns it has written exactly one tag, as the
\* first write on the data connection, and for "nof" and "unk" that write is
\* the only one.
C6_OneTagFirst ==
    HandleRequestReturned =>
        /\ Len(dataLog) >= 1
        /\ dataLog[1].role = "tag"
        /\ Sent[1] = Frame(TagOf(outcome))
        /\ \A i \in 2..Len(dataLog) :
               dataLog[i].role \in {"entry", "done", "chunk"}
        /\ outcome \in {"dir", "fil"} =>
               \A i \in 2..Len(dataLog) :
                   dataLog[i].role \in
                       (IF outcome = "dir" THEN {"entry", "done"} ELSE {"chunk"})
        /\ outcome \in {"nof", "unk"} => Len(dataLog) = 1

C6_Witness ==
    pc = "close" /\ outcome = "nof" /\ Len(dataLog) = 1 /\ dataLog[1].ret > 0

\* the order of one cycle's events: command, port, connect, tag, payload
\* writes, close
EventOrder(ev) ==
    \A i \in 1..Len(ev) :
        /\ ev[i] = "recvCmd" <=> i = 1
        /\ ev[i] = "recvPort" <=> i = 2
        /\ ev[i] = "connect" <=> i = 3
        /\ ev[i] = "tag" <=> i = 4
        /\ ev[i] = "payload" => i >= 5
        /\ ev[i] = "close" => i >= 5 /\ i = Len(ev)

\* C7: in every accept cycle the order is receive command, receive port,
\* connect, tag, payload, close, and nothing of a later cycle happens before
\* the current cycle's data connection is closed.
C7_CycleOrder ==
    /\ EventOrder(events)
    /\ dataOpen \subseteq {cycle}
    /\ dataOpen = {cycle} <=>
           (Len(events) >= 3 /\ Last(events) # "close")
    /\ (pc = "accept" /\ cycle >= 1) => Closed
    /\ Len(dataLog) > 0 => Len(events) >= 3

C7_Witness ==
    /\ cycle = 2
    /\ Closed
    /\ \E i \in 1..Len(events) : events[i] = "payload"

\* C8 as stated: a fatal error during a request leaves the peer without a
\* tag; "nof" and "unk" are one tag and a normal close.
C8_FatalMeansNoTag ==
    /\ (FatalInRequest /\ WholeTransfers) => ~TagReceived
    /\ (Closed /\ outcome \in {"nof", "unk"}) =>
           Len(dataLog) = 1 /\ dataLog[1].role = "tag"

\* C8, amended: a fatal error before the tag write has succeeded leaves the
\* peer without a byte on the data connection; a fatal error after a
\* received tag happens only in the listing and file branches; "nof" and
\* "unk" are one tag write and a normal close.
C8_FatalAfterTagOnlyWithPayload ==
    /\ (FatalInRequest /\ diag # "ERROR writing message to socket."
           /\ diag # "Can't open file.") => dataLog = <<>>
    /\ (FatalInRequest /\ Len(dataLog) = 1) =>
           (dataLog[1].ret < 0 <=> ~TagReceived)
    /\ (FatalInRequest /\ TagReceived) => outcome \in {"dir", "fil"}
    /\ (FatalInRequest /\ diag = "Can't open file.") =>
           (outcome = "fil" /\ TagReceived)
    /\ (Dispatched /\ outcome \in {"nof", "unk"} /\ dataLog[1].ret >= 0) =>
           (Len(dataLog) = 1 /\ (pc = "exited" => diag = "ERROR on accept"))
    /\ (Closed /\ outcome \in {"nof", "unk"}) =>
           (Len(dataLog) = 1 /\ dataLog[1].role = "tag" /\ dataOpen = {})

C8_Witness ==
    FatalInRequest /\ TagReceived /\ outcome = "fil" /\ diag = "Can't open file."

\* C9: in file mode a failed read ends the process with a diagnostic.
C9_ReadErrorIsFatal == (ferror /\ WholeTransfers) => pc = "exited"

\* a chunk write that accepted fewer bytes than it was handed
ShortChunkWrite ==
    \E i \in 1..Len(dataLog) :
        /\ dataLog[i].role = "chunk"
        /\ IsShort(dataLog[i].bytes.size, dataLog[i].ret)

\* C10: in file mode a short or failed chunk write ends the process; the
\* transfer never goes on after it.
C10_ShortWriteIsFatal == (ShortChunkWrite /\ shortReads = 0) => pc = "exited"

\* C11: at every moment at most one control connection and at most one data
\* connection are open, and when main is about to accept the next control
\* connection every connection of the cycles before, control and data, has
\* been closed.
C11_ConnectionsClosed ==
    WholeTransfers =>
        /\ Cardinality(ctrlOpen) <= 1
        /\ Cardinality(dataOpen) <= 1
        /\ pc = "accept" => (ctrlOpen = {} /\ dataOpen = {})

\* the outcomes that are a tag and nothing else
SoftOutcomes == {"nof", "unk"}

\* C12: a request that ends in the "nof" or "unk" outcome never ends the
\* server: once the tag is written handleRequest returns, main closes the
\* data connection and is back at accept with the listening socket as it
\* was, so a later request is still served.
C12_SoftOutcomeGoesOn ==
    /\ (Dispatched /\ outcome \in SoftOutcomes /\ dataLog[1].ret >= 0) =>
           \/ pc \in {"close", "accept"}
           \/ pc = "exited" /\ diag = "ERROR on accept"
    /\ (Closed /\ outcome \in SoftOutcomes) =>
           (dataOpen = {} /\ listenState = "listening" /\ diag = "")

\* a file request is served to the end in a cycle that follows one that
\* ended in "nof" or "unk"
C12_Witness ==
    /\ pc = "close"
    /\ cycle >= 2
    /\ prevOutcome \in SoftOutcomes
    /\ outcome = "fil"
    /\ Len(dataLog) >= 2

ZeroLengthRequest ==
    /\ outcome = "fil"
    /\ command \in DOMAIN dir
    /\ dir[command].kind = "reg"
    /\ dir[command].len = 0

\* C14: for a zero-length file the server writes the "fil" tag and then makes
\* no chunk write at all before it closes the data connection.
C14_EmptyFileNoChunkWrite ==
    (pc = "close" /\ WholeTransfers /\ ZeroLengthRequest) =>
        /\ Len(dataLog) = 1
        /\ dataLog[1].role = "tag"
        /\ dataLog[1].bytes = Frame(TAG_FIL)

\* C15: a failure of any transport setup operation (socket, bind, listen,
\* accept, connect) ends the process at once; the server never goes on to
\* its next step after one of them has failed.
C15_SetupFailureIsFatal ==
    /\ listenState = "notListening" => pc = "exited"
    /\ diag \in {"ERROR opening socket", "ERROR on binding", "ERROR on accept",
                 "ERROR establishing data connection."} => pc = "exited"

\* C16: every framed message (a tag, a listing entry, the "~done" line) is
\* handed to the transport as one write of exactly BUFFER_SIZE bytes: the
\* message text followed by zero bytes only, whatever the buffer held before.
C16_FramedWrites ==
    \A i \in 1..Len(dataLog) :
        LET w == dataLog[i]
        IN  w.role # "chunk" =>
              /\ w.bytes.size = BUFFER_SIZE
              /\ w.role = "tag" => w.bytes = Frame(TagOf(outcome))
              /\ w.role = "entry" =>
                     \E e \in DOMAIN dir : w.bytes = Frame(strcatNL(e))
              /\ w.role = "done" => w.bytes = Frame(DONE_MSG)

\* a tag has been written, in full, into the buffer that held a command
\* longer than the tag
C16_Witness ==
    /\ Dispatched
    /\ Len(command) > Len(TagOf(outcome))
    /\ dataLog[1].role = "tag"
    /\ dataLog[1].ret = BUFFER_SIZE

\* both control reads of this cycle returned a whole message
WholeReads == ctrlPos = 2 * BUFFER_SIZE

\* C17: in every cycle the data connection is opened to the address of the
\* client accepted in that cycle and to the port decoded from that cycle's
\* second control read -- the port the client named, when the reads returned
\* whole messages -- and never to an address or port of an earlier cycle.
C17_ConnectTarget ==
    connTarget # NoTarget =>
        /\ connTarget.addr = peer.addr
        /\ connTarget.port = dataPort
        /\ WholeReads => connTarget.port = atoi(peer.port)

\* the second cycle has connected to its own client, while cliAddr held the
\* address and data port of the first client when the cycle began
C17_Witness ==
    /\ cycle = 2
    /\ pc = "dispatch"
    /\ WholeReads
    /\ connTarget = [addr |-> PeerEnd(2).addr, port |-> atoi(PeerEnd(2).port)]
    /\ connTarget.addr # PeerEnd(1).addr
    /\ connTarget.port # atoi(PeerEnd(1).port)

\* C18: however the transport splits the client's control stream into read
\* results, the command text main hands to handleRequest is the client's
\* first message and the data port is the number in its second.
C18_ControlReassembly ==
    pc = "connect" =>
        /\ CStr(buffer) = peer.cmd
        /\ dataPort = atoi(peer.port)

\* C20: in the file branch the name given to sendFile is the command text
\* that was tested for membership in the directory, although the "fil" tag
\* has overwritten the command buffer in between.
C20_FileNameIsCommand ==
    pc \in {"fopen", "sendFile"} =>
        /\ fileName = command
        /\ inDir(fileName, dir)
        /\ CStr(buffer) = TAG_FIL

\* the file is open under its own name while the buffer holds the tag
C20_Witness ==
    /\ pc = "sendFile"
    /\ fileName = NAME_DONE
    /\ CStr(buffer) = TAG_FIL
    /\ fileName # CStr(buffer)

\* main is inside an accept cycle
InCycle ==
    pc \in {"recvCmd", "recvPort", "connect", "dispatch", "sendDir", "fopen",
            "sendFile", "close"}

\* a transport operation or the opening or reading of the file has failed
OperationFailed == pc = "exited" \/ ferror

\* C19: provided every transport operation and every file read completes
\* successfully, each accept cycle ends, for every command and every file
\* length (zero and the multiples of 500 among them): the transfer loop
\* ends, the data connection is closed and main is back at accept.
C19_CycleTerminates == InCycle ~> ((Closed /\ dataOpen = {}) \/ OperationFailed)

\* cycles that sent a file of length zero, and of 500 and 1000 bytes, to
\* their end
C19_Witness ==
    /\ Closed
    /\ outcome = "fil"
    /\ dir[command].len \in {0, 500, 1000}
    /\ filePos = dir[command].len
    /\ \A i \in 1..Len(dataLog) : dataLog[i].ret = dataLog[i].bytes.size

====
